---- MODULE Spec2Model ----
(***************************************************************************)
(* flask-redis: FlaskRedis (src/flask_redis/client.py).                    *)
(*                                                                         *)
(* Python strings are TLA+ strings (TLC evaluates Len, \o, SubSeq on       *)
(* them); a character is a string of length one.  Python values that are   *)
(* handed to the provider are tagged tuples: <<"None">>, <<"str", s>>,     *)
(* <<"int", n>>, <<"bool", b>>, <<"float", num, den>> (num/den), <<"ssl",  *)
(* name>> (a constant of the ssl module) and <<"obj", n>> (the n-th object *)
(* a provider returned).  A dict is a function from its keys.  A function  *)
(* that can raise returns a record whose ok field is FALSE when it raised. *)
(***************************************************************************)
EXTENDS Integers, Sequences, FiniteSets, TLC

---------------------------------------------------------------------------
(* str methods *)

None == <<"None">>

PyStr(s) == <<"str", s>>

PyInt(n) == <<"int", n>>

PyBool(b) == <<"bool", b>>

RECURSIVE FindFrom(_, _, _)
FindFrom(s, c, i) ==
    IF i > Len(s) THEN 0 ELSE IF SubSeq(s, i, i) = c THEN i ELSE FindFrom(s, c, i + 1)

\* s.find(c) + 1: the first position of the character c in s, 0 when none
Find(s, c) == FindFrom(s, c, 1)

RECURSIVE RFindFrom(_, _, _)
RFindFrom(s, c, i) ==
    IF i < 1 THEN 0 ELSE IF SubSeq(s, i, i) = c THEN i ELSE RFindFrom(s, c, i - 1)

\* s.rfind(c) + 1
RFind(s, c) == RFindFrom(s, c, Len(s))

\* c in s
Contains(s, c) == Find(s, c) > 0

\* s cut at position i (the character at i dropped); <<s>> when i = 0
CutAt(s, i) ==
    IF i = 0 THEN <<s>> ELSE <<SubSeq(s, 1, i - 1), SubSeq(s, i + 1, Len(s))>>

\* s.split(c, 1): one or two parts
SplitOnce(s, c) == CutAt(s, Find(s, c))

\* s.split(c)
RECURSIVE Split(_, _)
RECURSIVE SplitRest(_, _)
SplitRest(parts, c) ==
    IF Len(parts) = 1 THEN parts ELSE <<parts[1]>> \o Split(parts[2], c)

Split(s, c) == SplitRest(SplitOnce(s, c), c)

\* s.lstrip(c)
RECURSIVE LStrip(_, _)
LStrip(s, c) ==
    IF Len(s) > 0 /\ SubSeq(s, 1, 1) = c THEN LStrip(SubSeq(s, 2, Len(s)), c) ELSE s

\* s.replace(c, d) for single characters
RECURSIVE Replace(_, _, _)
Replace(s, c, d) ==
    IF Len(s) = 0 THEN s
    ELSE (IF SubSeq(s, 1, 1) = c THEN d ELSE SubSeq(s, 1, 1))
            \o Replace(SubSeq(s, 2, Len(s)), c, d)

UpperCase == "ABCDEFGHIJKLMNOPQRSTUVWXYZ"

LowerCase == "abcdefghijklmnopqrstuvwxyz"

Digits == "0123456789"

LowerAt(c, i) == IF i = 0 THEN c ELSE SubSeq(LowerCase, i, i)

LowerChar(c) == LowerAt(c, Find(UpperCase, c))

\* s.lower()
RECURSIVE Lower(_)
Lower(s) ==
    IF Len(s) = 0 THEN s ELSE LowerChar(SubSeq(s, 1, 1)) \o Lower(SubSeq(s, 2, Len(s)))

IsDigits(s) == Len(s) > 0 /\ \A i \in 1..Len(s) : Find(Digits, SubSeq(s, i, i)) > 0

RECURSIVE DigitsValue(_)
DigitsValue(s) ==
    IF Len(s) = 0 THEN 0
    ELSE 10 * DigitsValue(SubSeq(s, 1, Len(s) - 1))
            + (Find(Digits, SubSeq(s, Len(s), Len(s))) - 1)

RECURSIVE Pow10(_)
Pow10(n) == IF n = 0 THEN 1 ELSE 10 * Pow10(n - 1)

\* int(s) on strings without sign, blanks or underscores: the value, or a
\* ValueError
ParseInt(s) ==
    IF IsDigits(s) THEN [ok |-> TRUE, val |-> DigitsValue(s)] ELSE [ok |-> FALSE, val |-> 0]

\* the float of the digits before and after the '.'
FloatOf(parts) ==
    IF Len(parts) = 1
    THEN (IF IsDigits(parts[1])
          THEN [ok |-> TRUE, val |-> <<"float", DigitsValue(parts[1]), 1>>]
          ELSE [ok |-> FALSE, val |-> None])
    ELSE (IF IsDigits(parts[1] \o parts[2])
          THEN [ok |-> TRUE,
                val |-> <<"float", DigitsValue(parts[1] \o parts[2]), Pow10(Len(parts[2]))>>]
          ELSE [ok |-> FALSE, val |-> None])

\* float(s) on strings of digits and '.': the value num/den, or a ValueError
ParseFloat(s) == FloatOf(SplitOnce(s, "."))

---------------------------------------------------------------------------
(* urllib.parse, as client.py uses it, for URLs without blanks, control    *)
(* characters, brackets and '%'                                            *)

SchemeChars == LowerCase \o UpperCase \o Digits \o "+-."

\* the first position in s, from i on, of a character of cs; Len(s) + 1 when none
RECURSIVE FindAnyFrom(_, _, _)
FindAnyFrom(s, cs, i) ==
    IF i > Len(s) THEN i
    ELSE IF Find(cs, SubSeq(s, i, i)) > 0 THEN i ELSE FindAnyFrom(s, cs, i + 1)

\* the position of the ':' that ends the scheme of url, 0 when it has none
SchemeEndAt(url, i) ==
    IF /\ i > 1
       /\ Find(LowerCase \o UpperCase, SubSeq(url, 1, 1)) > 0
       /\ \A j \in 1..(i - 1) : Find(SchemeChars, SubSeq(url, j, j)) > 0
    THEN i ELSE 0

SchemeEnd(url) == SchemeEndAt(url, Find(url, ":"))

WithQuery(scheme, netloc, parts, fragment) ==
    [scheme |-> scheme, netloc |-> netloc, path |-> parts[1],
     query |-> IF Len(parts) = 2 THEN parts[2] ELSE "", fragment |-> fragment]

WithFragment(scheme, netloc, parts) ==
    WithQuery(scheme, netloc, SplitOnce(parts[1], "?"), IF Len(parts) = 2 THEN parts[2] ELSE "")

SplitNetlocAt(scheme, s, i) ==
    WithFragment(scheme, SubSeq(s, 1, i - 1), SplitOnce(SubSeq(s, i, Len(s)), "#"))

AfterScheme(scheme, rest) ==
    IF Len(rest) >= 2 /\ SubSeq(rest, 1, 2) = "//"
    THEN SplitNetlocAt(scheme, SubSeq(rest, 3, Len(rest)),
                       FindAnyFrom(SubSeq(rest, 3, Len(rest)), "/?#", 1))
    ELSE WithFragment(scheme, "", SplitOnce(rest, "#"))

UrlparseAt(url, i) ==
    AfterScheme(IF i > 0 THEN Lower(SubSeq(url, 1, i - 1)) ELSE "", SubSeq(url, i + 1, Len(url)))

\* urlparse(url): scheme (lowercased), netloc, path, query, fragment
urlparse(url) == UrlparseAt(url, SchemeEnd(url))

\* netloc.rpartition('@')[0], or None when netloc has no '@'
UserinfoAt(netloc, i) == IF i = 0 THEN None ELSE PyStr(SubSeq(netloc, 1, i - 1))

Userinfo(netloc) == UserinfoAt(netloc, RFind(netloc, "@"))

UsernameOf(userinfo) == IF userinfo = None THEN None ELSE PyStr(SplitOnce(userinfo[2], ":")[1])

PasswordIn(parts) == IF Len(parts) = 2 THEN PyStr(parts[2]) ELSE None

PasswordOf(userinfo) == IF userinfo = None THEN None ELSE PasswordIn(SplitOnce(userinfo[2], ":"))

\* ParseResult.username
username(parsed_url) == UsernameOf(Userinfo(parsed_url.netloc))

\* ParseResult.password
password(parsed_url) == PasswordOf(Userinfo(parsed_url.netloc))

\* one field of a query: its (name, value) pair; a field without '=' or with
\* an empty value is dropped
QsPair(nv) ==
    IF Len(nv) = 2 /\ Len(nv[2]) > 0
    THEN <<<<Replace(nv[1], "+", " "), Replace(nv[2], "+", " ")>>>>
    ELSE <<>>

RECURSIVE QsPairs(_)
QsPairs(fields) ==
    IF Len(fields) = 0 THEN <<>>
    ELSE QsPair(SplitOnce(Head(fields), "=")) \o QsPairs(Tail(fields))

\* parse_qs(query): the (name, value) pairs in the order of the query
parse_qs(query) == QsPairs(Split(query, "&"))

\* query_params.get(key, [None])[0]: the first value of key
RECURSIVE QGet(_, _)
QGet(query_params, key) ==
    IF Len(query_params) = 0 THEN None
    ELSE IF Head(query_params)[1] = key THEN PyStr(Head(query_params)[2])
    ELSE QGet(Tail(query_params), key)

---------------------------------------------------------------------------
(* dicts and calls with keyword arguments *)

EmptyDict == <<>>

\* {k: v}
Dict1(k, v) == [x \in {k} |-> v]

\* d.update(e): the keys of e win
Update(d, e) == [x \in DOMAIN d \cup DOMAIN e |-> IF x \in DOMAIN e THEN e[x] ELSE d[x]]

\* d[k] = v when cond, d otherwise
PutIf(cond, d, k, v) == IF cond THEN Update(d, Dict1(k, v)) ELSE d

\* bool(v) of a str or None
Truthy(v) == v # None /\ v # PyStr("")

\* f(..., k=v, **d1, **d2): a keyword given twice is a TypeError raised at
\* the call site, before f is entered
KwCollision(parts) ==
    \E i, j \in 1..Len(parts) : i < j /\ DOMAIN parts[i] \cap DOMAIN parts[j] # {}

RECURSIVE KwMerge(_)
KwMerge(parts) ==
    IF Len(parts) = 0 THEN EmptyDict ELSE Update(KwMerge(Tail(parts)), Head(parts))

---------------------------------------------------------------------------
(* FlaskRedis: the parsers of a sentinel URL *)

DefaultSentinelPort == 26379

DefaultDb == 0

_extract_credentials(parsed_url) == <<username(parsed_url), password(parsed_url)>>

\* the part of netloc that _parse_hosts splits into hosts
HostsPartOf(parts) == IF Len(parts) = 2 THEN parts[2] ELSE parts[1]

HostsPart(netloc) == HostsPartOf(SplitOnce(netloc, "@"))

WithPort(host, port) == [ok |-> port.ok, val |-> <<host, port.val>>]

\* one host[:port] token, split on its first ':'; ok is FALSE when int(port)
\* raises ValueError
HostPort(parts) ==
    IF Len(parts) = 2 THEN WithPort(parts[1], ParseInt(parts[2]))
    ELSE [ok |-> TRUE, val |-> <<parts[1], DefaultSentinelPort>>]

HostList(tokens) ==
    [ok |-> \A i \in 1..Len(tokens) : HostPort(SplitOnce(tokens[i], ":")).ok,
     val |-> [i \in 1..Len(tokens) |-> HostPort(SplitOnce(tokens[i], ":")).val]]

_parse_hosts(parsed_url) == HostList(Split(HostsPart(parsed_url.netloc), ","))

WithDb(master_name, db) == [ok |-> db.ok, master_name |-> master_name, db |-> db.val]

\* a variant that never reads the database index
MasterAndDb_NoDb(parts) == [ok |-> TRUE, master_name |-> parts[1], db |-> DefaultDb]

MasterAndDb(parts) ==
    IF Len(parts) = 2 THEN WithDb(parts[1], ParseInt(parts[2]))
    ELSE [ok |-> TRUE, master_name |-> parts[1], db |-> DefaultDb]

_parse_master_and_db(parsed_url) == MasterAndDb(SplitOnce(LStrip(parsed_url.path, "/"), "/"))

SocketTimeoutOf(socket_timeout) ==
    IF socket_timeout # None THEN ParseFloat(socket_timeout[2]) ELSE [ok |-> TRUE, val |-> None]

_parse_socket_timeout(query_params) == SocketTimeoutOf(QGet(query_params, "socket_timeout"))

\* a variant without .lower()
SslParamTrue_CaseSensitive(ssl_param) ==
    (IF ssl_param = None THEN "False" ELSE ssl_param[2]) = "true"

\* query_params.get("ssl", ["False"])[0].lower() == "true"
SslParamTrue(ssl_param) == Lower(IF ssl_param = None THEN "False" ELSE ssl_param[2]) = "true"

_parse_ssl_enabled(scheme, query_params) ==
    IF scheme = "rediss+sentinel" THEN TRUE ELSE SslParamTrue(QGet(query_params, "ssl"))

CertReqsNamed(name) ==
    CASE name = "required" -> <<"ssl", "CERT_REQUIRED">>
      [] name = "optional" -> <<"ssl", "CERT_OPTIONAL">>
      [] name = "none" -> <<"ssl", "CERT_NONE">>
      [] OTHER -> None

CertReqsOf(ssl_cert_reqs) ==
    IF Truthy(ssl_cert_reqs) THEN CertReqsNamed(Lower(ssl_cert_reqs[2])) ELSE None

_parse_ssl_cert_reqs(query_params) == CertReqsOf(QGet(query_params, "ssl_cert_reqs"))

SslDict(ssl_cert_reqs, ssl_keyfile, ssl_certfile, ssl_ca_certs) ==
    PutIf(Truthy(ssl_ca_certs),
        PutIf(Truthy(ssl_certfile),
            PutIf(Truthy(ssl_keyfile),
                PutIf(ssl_cert_reqs # None, Dict1("ssl", PyBool(TRUE)),
                      "ssl_cert_reqs", ssl_cert_reqs),
                "ssl_keyfile", ssl_keyfile),
            "ssl_certfile", ssl_certfile),
        "ssl_ca_certs", ssl_ca_certs)

_parse_ssl_params(query_params, ssl_enabled) ==
    IF ssl_enabled
    THEN SslDict(_parse_ssl_cert_reqs(query_params), QGet(query_params, "ssl_keyfile"),
                 QGet(query_params, "ssl_certfile"), QGet(query_params, "ssl_ca_certs"))
    ELSE EmptyDict

_parse_auth_params(user, pass) ==
    PutIf(Truthy(pass), PutIf(Truthy(user), EmptyDict, "username", user), "password", pass)

SentinelKwargs(hosts, master_db, socket_timeout, ssl_params, auth_params) ==
    [ok |-> hosts.ok /\ master_db.ok /\ socket_timeout.ok,
     sentinel_kwargs |->
        [hosts |-> hosts.val, socket_timeout |-> socket_timeout.val,
         ssl_params |-> ssl_params, auth_params |-> auth_params,
         master_name |-> master_db.master_name],
     client_kwargs |->
        [db |-> master_db.db, socket_timeout |-> socket_timeout.val,
         ssl_params |-> ssl_params, auth_params |-> auth_params]]

ParsedParameters(cred, hosts, master_db, scheme, query_params) ==
    SentinelKwargs(hosts, master_db, _parse_socket_timeout(query_params),
                   _parse_ssl_params(query_params, _parse_ssl_enabled(scheme, query_params)),
                   _parse_auth_params(cred[1], cred[2]))

\* ok is FALSE when one of the parsers raises ValueError; nothing is returned then
_parse_sentinel_parameters(parsed_url) ==
    ParsedParameters(_extract_credentials(parsed_url), _parse_hosts(parsed_url),
                     _parse_master_and_db(parsed_url), parsed_url.scheme,
                     parse_qs(parsed_url.query))

---------------------------------------------------------------------------
(* the program state *)

VARIABLES
    modules,     \* client.py's module-level names redis and Sentinel
    config,      \* app.config of each application
    extensions,  \* app.extensions of each application ("has": hasattr)
    inst,        \* the FlaskRedis instances, in order of construction
    nobj,        \* the number of objects the providers have returned
    last,        \* the most recent call: its inputs, outcome and provider calls
    trace        \* history: every call's inputs and outcome, oldest first

vars == <<modules, config, extensions, inst, nobj, last, trace>>

Apps == {"app1", "app2"}

NoApp == "None"

DefaultURL == "redis://localhost:6379/0"

SentinelSchemes == {"redis+sentinel", "rediss+sentinel"}

\* app.config.get(key, default)
ConfigGet(cfg, key, default) == IF key \in DOMAIN cfg THEN cfg[key] ELSE default

\* the result of a client construction: what was raised ("ok": nothing),
\* the provider entry points entered, self._redis_client and nobj afterwards
Result(outcome, calls, client, n) ==
    [outcome |-> outcome, calls |-> calls, client |-> client, nobj |-> n]

\* a provider call that raised: it returned nothing
Raising(call) == [call EXCEPT !.ret = None]

\* cls.from_url(url, **kwargs), entered unless a keyword is given twice;
\* fault names the provider entry point that raises when it is entered
FromUrl(self, call, collision, n, fault) ==
    CASE collision -> Result("TypeError", <<>>, self._redis_client, n)
      [] ~collision /\ fault = "from_url" ->
            Result("ProviderError", <<Raising(call)>>, self._redis_client, n)
      [] OTHER -> Result("ok", <<call>>, <<"obj", n + 1>>, n + 1)

\* the keywords of the from_url(...) call of lines 63-65
StandardKwargs(self) ==
    <<Dict1("decode_responses", PyBool(self.decode_responses)), self.provider_kwargs>>

_init_standard_client(self, redis_url, n, fault) ==
    FromUrl(self,
            [fn |-> "from_url", on |-> <<"class", self.provider_class>>,
             args |-> <<redis_url>>, kwargs |-> KwMerge(StandardKwargs(self)),
             ret |-> <<"obj", n + 1>>],
            KwCollision(StandardKwargs(self)), n, fault)

\* Sentinel(hosts, **skw) and then sentinel.master_for(master_name, **mkw)
SentinelThenMaster(self, ok, scall, scollision, mcall, mcollision, n, fault) ==
    CASE ~ok -> Result("ValueError", <<>>, self._redis_client, n)
      [] ok /\ scollision -> Result("TypeError", <<>>, self._redis_client, n)
      [] ok /\ ~scollision /\ fault = "Sentinel" ->
            Result("ProviderError", <<Raising(scall)>>, self._redis_client, n)
      [] ok /\ ~scollision /\ fault # "Sentinel" /\ mcollision ->
            Result("TypeError", <<scall>>, self._redis_client, n + 1)
      [] ok /\ ~scollision /\ fault = "master_for" /\ ~mcollision ->
            Result("ProviderError", <<scall, Raising(mcall)>>, self._redis_client, n + 1)
      [] OTHER -> Result("ok", <<scall, mcall>>, <<"obj", n + 2>>, n + 2)

\* the keywords of the Sentinel(...) call of lines 70-76
SentinelCallKwargs(self, sentinel_kwargs) ==
    <<Dict1("socket_timeout", sentinel_kwargs.socket_timeout),
      sentinel_kwargs.ssl_params, sentinel_kwargs.auth_params, self.provider_kwargs>>

\* a variant that hands master_for no credentials
MasterForKwargs_NoAuth(self, client_kwargs) ==
    <<[db |-> PyInt(client_kwargs.db),
       socket_timeout |-> client_kwargs.socket_timeout,
       decode_responses |-> PyBool(self.decode_responses)],
      client_kwargs.ssl_params, self.provider_kwargs>>

\* the keywords of the master_for(...) call of lines 78-86
MasterForKwargs(self, client_kwargs) ==
    <<[db |-> PyInt(client_kwargs.db),
       socket_timeout |-> client_kwargs.socket_timeout,
       decode_responses |-> PyBool(self.decode_responses)],
      client_kwargs.ssl_params, client_kwargs.auth_params, self.provider_kwargs>>

SentinelClient(self, p, n, fault) ==
    SentinelThenMaster(self, p.ok,
        [fn |-> "Sentinel", on |-> <<"class", "Sentinel">>,
         args |-> <<p.sentinel_kwargs.hosts>>,
         kwargs |-> KwMerge(SentinelCallKwargs(self, p.sentinel_kwargs)),
         ret |-> <<"obj", n + 1>>],
        KwCollision(SentinelCallKwargs(self, p.sentinel_kwargs)),
        [fn |-> "master_for", on |-> <<"obj", n + 1>>,
         args |-> <<p.sentinel_kwargs.master_name>>,
         kwargs |-> KwMerge(MasterForKwargs(self, p.client_kwargs)),
         ret |-> <<"obj", n + 2>>],
        KwCollision(MasterForKwargs(self, p.client_kwargs)),
        n, fault)

_init_sentinel_client(self, parsed_url, n, fault) ==
    SentinelClient(self, _parse_sentinel_parameters(parsed_url), n, fault)

\* a variant that takes only redis+sentinel for a discovery scheme
Dispatch_PlainSchemeOnly(self, redis_url, parsed_url, mods, n, fault) ==
    IF parsed_url.scheme = "redis+sentinel"
    THEN IF mods.Sentinel = "None"
         THEN Result("ImportError", <<>>, self._redis_client, n)
         ELSE _init_sentinel_client(self, parsed_url, n, fault)
    ELSE _init_standard_client(self, redis_url, n, fault)

\* lines 48-56 of init_app, on the instance whose provider_kwargs already
\* hold the call's kwargs
Dispatch(self, redis_url, parsed_url, mods, n, fault) ==
    IF parsed_url.scheme \in SentinelSchemes
    THEN IF mods.Sentinel = "None"
         THEN Result("ImportError", <<>>, self._redis_client, n)
         ELSE _init_sentinel_client(self, parsed_url, n, fault)
    ELSE _init_standard_client(self, redis_url, n, fault)

\* a variant that replaces provider_kwargs by the call's kwargs
MergedKwargs_Replaced(self, kwargs) == kwargs

\* self.provider_kwargs after line 46
MergedKwargs(self, kwargs) == Update(self.provider_kwargs, kwargs)

\* a variant that keeps the prefix as given
ExtensionKey_AsGiven(self) == self.config_prefix

\* the key of app.extensions that line 60 writes
ExtensionKey(self) == Lower(self.config_prefix)

\* a variant that writes app.extensions whatever the outcome
Registers_Always(outcome) == TRUE

\* whether init_app reaches lines 58-60
Registers(outcome) == outcome = "ok"

InitAppResult(self, redis_url, r) ==
    [self |-> [self EXCEPT !._redis_client = r.client],
     outcome |-> r.outcome, calls |-> r.calls, nobj |-> r.nobj, url |-> redis_url,
     registers |-> Registers(r.outcome), key |-> ExtensionKey(self)]

InitAppOn(self, redis_url, mods, n, fault) ==
    InitAppResult(self, redis_url,
                  Dispatch(self, redis_url, urlparse(redis_url), mods, n, fault))

\* init_app(self, app, **kwargs): the instance afterwards, the outcome, the
\* provider calls made, and whether app.extensions is written
init_app(self, cfg, kwargs, mods, n, fault) ==
    InitAppOn([self EXCEPT !.provider_kwargs = MergedKwargs(self, kwargs)],
              ConfigGet(cfg, self.config_prefix \o "_URL", DefaultURL), mods, n, fault)

\* app.extensions after lines 58-60
Registered(ext, key, i) == [has |-> TRUE, d |-> Update(ext.d, Dict1(key, i))]

\* FlaskRedis.__init__, lines 22-26
NewInstance(strict, config_prefix, decode_responses, kwargs) ==
    [_redis_client |-> None,
     provider_class |-> IF strict THEN "StrictRedis" ELSE "Redis",
     config_prefix |-> config_prefix,
     decode_responses |-> decode_responses,
     provider_kwargs |-> kwargs]

\* the history of a call
Record(op, i, app, prefix, kwargs, outcome, calls, url) ==
    /\ last' = [op |-> op, inst |-> i, app |-> app, prefix |-> prefix,
                kwargs |-> kwargs, outcome |-> outcome, calls |-> calls, url |-> url]
    /\ trace' = Append(trace, [op |-> op, inst |-> i, app |-> app, prefix |-> prefix,
                               kwargs |-> kwargs, outcome |-> outcome])

\* a call that raised before init_app
Fails(op, app, prefix, kwargs, error) ==
    /\ Record(op, 0, app, prefix, kwargs, error, <<>>, "")
    /\ UNCHANGED <<inst, extensions, nobj>>

\* the constructor's init_app returned r: an exception leaves the caller
\* without the instance
Constructed(op, app, prefix, kwargs, r) ==
    /\ inst' = IF r.outcome = "ok" THEN Append(inst, r.self) ELSE inst
    /\ extensions' = IF r.registers
                     THEN [extensions EXCEPT ![app] = Registered(@, r.key, Len(inst) + 1)]
                     ELSE extensions
    /\ nobj' = r.nobj
    /\ Record(op, IF r.outcome = "ok" THEN Len(inst) + 1 ELSE 0, app, prefix, kwargs,
              r.outcome, r.calls, r.url)

\* lines 28-29 and 37-38: init_app(app) when an app is given
ConstructWith(op, self, app, kwargs, fault) ==
    IF app = NoApp
    THEN /\ inst' = Append(inst, self)
         /\ Record(op, Len(inst) + 1, app, self.config_prefix, kwargs, "ok", <<>>, "")
         /\ UNCHANGED <<extensions, nobj>>
    ELSE Constructed(op, app, self.config_prefix, kwargs,
                     init_app(self, config[app], EmptyDict, modules, nobj, fault))

\* FlaskRedis(app, strict, config_prefix, decode_responses, **kwargs);
\* redis.StrictRedis on a redis that is None is an AttributeError (line 23)
Construct(app, strict, config_prefix, decode_responses, kwargs, fault) ==
    /\ IF modules.redis = "None"
       THEN Fails("__init__", app, config_prefix, kwargs, "AttributeError")
       ELSE ConstructWith("__init__",
                          NewInstance(strict, config_prefix, decode_responses, kwargs),
                          app, kwargs, fault)
    /\ UNCHANGED <<modules, config>>

\* FlaskRedis.from_custom_provider(provider, app, strict=, config_prefix=,
\* decode_responses=, **kwargs)
FromCustomProvider(provider, app, strict, config_prefix, decode_responses, kwargs, fault) ==
    /\ CASE provider = "None" ->
                Fails("from_custom_provider", app, config_prefix, kwargs, "AssertionError")
         [] provider # "None" /\ modules.redis = "None" ->
                Fails("from_custom_provider", app, config_prefix, kwargs, "AttributeError")
         [] OTHER ->
                ConstructWith("from_custom_provider",
                              [NewInstance(strict, config_prefix, decode_responses, kwargs)
                                  EXCEPT !.provider_class = provider],
                              app, kwargs, fault)
    /\ UNCHANGED <<modules, config>>

Initialised(i, app, prefix, kwargs, r) ==
    /\ inst' = [inst EXCEPT ![i] = r.self]
    /\ extensions' = IF r.registers
                     THEN [extensions EXCEPT ![app] = Registered(@, r.key, i)]
                     ELSE extensions
    /\ nobj' = r.nobj
    /\ Record("init_app", i, app, prefix, kwargs, r.outcome, r.calls, r.url)

\* inst[i].init_app(app, **kwargs)
InitApp(i, app, kwargs, fault) ==
    /\ i \in 1..Len(inst)
    /\ Initialised(i, app, inst[i].config_prefix, kwargs,
                   init_app(inst[i], config[app], kwargs, modules, nobj, fault))
    /\ UNCHANGED <<modules, config>>

---------------------------------------------------------------------------
(* the specifications: the same program on three sets of inputs *)

\* the most calls of one behaviour of Spec and SpecKwargs
MaxCalls == 3

\* the most calls of one behaviour of SpecParse
MaxParseCalls == 2

NoLast ==
    [op |-> "none", inst |-> 0, app |-> NoApp, prefix |-> "", kwargs |-> EmptyDict,
     outcome |-> "none", calls |-> <<>>, url |-> ""]

\* lines 4-10: both names are bound by the import, or both are None
ModuleStates ==
    {[redis |-> "redis", Sentinel |-> "Sentinel"], [redis |-> "None", Sentinel |-> "None"]}

InitWith(configs) ==
    /\ modules \in ModuleStates
    /\ config \in configs
    /\ extensions = [a \in Apps |-> [has |-> a = "app1", d |-> EmptyDict]]
    /\ inst = <<>>
    /\ nobj = 0
    /\ last = NoLast
    /\ trace = <<>>

(* Spec: several instances and prefixes on two applications *)

Prefixes == {"REDIS", "Redis", "DBA"}

Configs ==
    {[app1 |-> [REDIS_URL |-> "redis+sentinel://localhost:26379/mymaster/0",
                DBA_URL |-> "redis://localhost:6379/1"],
      app2 |-> [REDIS_URL |-> "redis+sentinel://h1:x/mymaster/0",
                Redis_URL |-> "rediss://localhost:6379/2",
                DBA_URL |-> "rediss+sentinel://u:p@h1:1,h2/grp/3?socket_timeout=2.5"]]}

Init == InitWith(Configs)

Next ==
    \/ \E app \in Apps \cup {NoApp}, config_prefix \in Prefixes :
        /\ Len(trace) < MaxCalls
        /\ Construct(app, TRUE, config_prefix, TRUE, EmptyDict, "none")
    \/ \E provider \in {"None", "Provider"}, app \in {NoApp, "app1"} :
        /\ Len(trace) < MaxCalls
        /\ FromCustomProvider(provider, app, TRUE, "REDIS", TRUE, EmptyDict, "none")
    \/ \E i \in 1..Len(inst), app \in Apps :
        /\ Len(trace) < MaxCalls
        /\ InitApp(i, app, EmptyDict, "none")

Spec == Init /\ [][Next]_vars

(* SpecKwargs: one prefix, keyword arguments to the constructor and init_app *)

KwConfigs ==
    {[app1 |-> [REDIS_URL |-> "redis://localhost:6379/1"],
      app2 |-> [REDIS_URL |-> "rediss+sentinel://u:p@h1:1,h2/grp/3?socket_timeout=2.5"]],
     [app1 |-> [REDIS_URL |-> "redis+sentinel://localhost:26379/mymaster/0"],
      app2 |-> [REDIS_URL |-> "redis+sentinel://h1:x/mymaster/0"]]}

CtorKwargs == {EmptyDict, Dict1("max_connections", PyInt(1)), Dict1("socket_timeout", PyInt(5))}

InitKwargs ==
    {EmptyDict, Dict1("max_connections", PyInt(2)), Dict1("decode_responses", PyBool(FALSE)),
     Dict1("db", PyInt(1)), Dict1("password", PyStr("x"))}

InitKw == InitWith(KwConfigs)

NextKw ==
    \/ \E decode_responses \in BOOLEAN, kwargs \in CtorKwargs :
        /\ Len(trace) < MaxCalls
        /\ Construct(NoApp, TRUE, "REDIS", decode_responses, kwargs, "none")
    \/ \E i \in 1..Len(inst), app \in Apps, kwargs \in InitKwargs :
        /\ Len(trace) < MaxCalls
        /\ InitApp(i, app, kwargs, "none")

SpecKwargs == InitKw /\ [][NextKw]_vars

(* SpecParse: one instance, one application, many URLs *)

ParseSchemes == {"redis+sentinel", "rediss+sentinel"}

ParseUserinfos == {"", "u:p@", "u:p@ss@"}

ParseHosts == {"h2", "h1:1,h2", "h1:x"}

ParsePaths == {"", "/grp", "/grp/x", "//grp/12", "/grp/"}

ParseQueries ==
    {"", "?ssl=TRUE&ssl_cert_reqs=Required&ssl_keyfile=k&socket_timeout=2.5",
     "?ssl=no&ssl=true&ssl_cert_reqs=none&ssl_ca_certs=ca",
     "?socket_timeout=x", "?ssl_cert_reqs=bogus&ssl_certfile=c&socket_timeout=3"}

\* URLs outside the product: other schemes, and a scheme in capitals
OtherURLs ==
    {"redis://u:p@h1:1,h2/grp/3?ssl=true", "rediss://localhost:6379/2",
     "redis://h1:x/0?socket_timeout=x", "unix:///tmp/redis.sock?db=1",
     "Redis+Sentinel://u:p@h1:1,h2/grp/3?ssl=True&ssl_cert_reqs=optional",
     "REDISS+SENTINEL://h2/grp/x"}

ParseURLs ==
    OtherURLs \cup
    {s \o "://" \o u \o h \o p \o q :
        s \in ParseSchemes, u \in ParseUserinfos, h \in ParseHosts,
        p \in ParsePaths, q \in ParseQueries}

ParseConfigs == {[app1 |-> Dict1("REDIS_URL", url), app2 |-> EmptyDict] : url \in ParseURLs}

ParseFaults == {"none", "from_url", "Sentinel", "master_for"}

\* redis-py is installed
InitParse == InitWith(ParseConfigs) /\ modules.redis # "None"

NextParse ==
    \/ \E app \in {NoApp, "app1"} :
        /\ Len(trace) < MaxParseCalls
        /\ Construct(app, TRUE, "REDIS", TRUE, EmptyDict, "none")
    \/ \E i \in 1..Len(inst), fault \in ParseFaults :
        /\ Len(trace) < MaxParseCalls
        /\ InitApp(i, "app1", EmptyDict, fault)

SpecParse == InitParse /\ [][NextParse]_vars

---------------------------------------------------------------------------
(* what the properties read off a URL, in the words of the URL format      *)
(* scheme://[user[:pass]@]host1[:port1][,host2[:port2]...]/group/db?query  *)

IsSentinelUrl(url) == urlparse(url).scheme \in SentinelSchemes

\* the URL that a call of the instance with this prefix reads from app
ConfiguredUrl(app, prefix) == ConfigGet(config[app], prefix \o "_URL", DefaultURL)

\* the authority after its credentials: what follows the '@' that ends the userinfo
WrittenHosts(netloc) == Split(SubSeq(netloc, RFind(netloc, "@") + 1, Len(netloc)), ",")

WrittenHostPair(token) ==
    IF Contains(token, ":")
    THEN <<SubSeq(token, 1, Find(token, ":") - 1),
           DigitsValue(SubSeq(token, Find(token, ":") + 1, Len(token)))>>
    ELSE <<token, 26379>>

ExpectedHosts(tokens) == [i \in 1..Len(tokens) |-> WrittenHostPair(tokens[i])]

BadPortIn(tokens) ==
    \E i \in 1..Len(tokens) :
        Contains(tokens[i], ":") /\ ~IsDigits(SplitOnce(tokens[i], ":")[2])

BadDbIn(parts) == Len(parts) = 2 /\ ~IsDigits(parts[2])

BadTimeoutIn(text) == text # None /\ ~ParseFloat(text[2]).ok

\* the URL has a port, a database index or a socket_timeout that is not a number
MalformedParts(u) ==
    \/ BadPortIn(WrittenHosts(u.netloc))
    \/ BadDbIn(SplitOnce(LStrip(u.path, "/"), "/"))
    \/ BadTimeoutIn(QGet(parse_qs(u.query), "socket_timeout"))

Malformed(url) ==
    LET u == urlparse(url) IN u.scheme \in SentinelSchemes /\ MalformedParts(u)

SslKeys == {"ssl", "ssl_cert_reqs", "ssl_keyfile", "ssl_certfile", "ssl_ca_certs"}

AuthKeys == {"username", "password"}

Restrict(d, keys) == [k \in DOMAIN d \cap keys |-> d[k]]

\* a call has been made in this state
Called == last.op # "none"

\* the index in trace of the last call that completed for key k of app a
Completed(a, k) ==
    {j \in 1..Len(trace) :
        trace[j].outcome = "ok" /\ trace[j].app = a /\ Lower(trace[j].prefix) = k}

Latest(S) == CHOOSE j \in S : \A m \in S : m <= j

---------------------------------------------------------------------------
(* C1 *)

\* C1: for every application, each key of app.extensions holds the instance
\* whose init_app most recently completed on that application with
\* config_prefix.lower() equal to the key, that instance has a client, and
\* every completed init_app has left an entry under its key: a call replaces
\* the entry of its own key and leaves the other keys' entries as they were.
C1_RegistryLastWriterWins ==
    \A a \in Apps :
        /\ \A k \in DOMAIN extensions[a].d :
            /\ Completed(a, k) # {}
            /\ extensions[a].d[k] = trace[Latest(Completed(a, k))].inst
            /\ inst[extensions[a].d[k]]._redis_client # None
        /\ \A j \in 1..Len(trace) :
            (trace[j].outcome = "ok" /\ trace[j].app = a)
                => Lower(trace[j].prefix) \in DOMAIN extensions[a].d

\* an entry replaced by a later instance while another key's entry stays
C1_Witness ==
    \E a \in Apps : \E k, k2 \in DOMAIN extensions[a].d :
        /\ k # k2
        /\ Cardinality(Completed(a, k)) >= 2
        /\ \E j \in Completed(a, k) : trace[j].inst # extensions[a].d[k]
        /\ Latest(Completed(a, k2)) < Latest(Completed(a, k))

---------------------------------------------------------------------------
(* C2 *)

\* C2: a call whose URL has a discovery scheme enters only Sentinel and
\* master_for, never from_url; a call with any other scheme enters only
\* from_url, with the configured URL unchanged, and exactly once when it
\* completes.
C2_BranchExclusive ==
    (Called /\ last.app # NoApp) =>
        IF IsSentinelUrl(ConfiguredUrl(last.app, last.prefix))
        THEN \A c \in 1..Len(last.calls) : last.calls[c].fn \in {"Sentinel", "master_for"}
        ELSE /\ \A c \in 1..Len(last.calls) :
                    /\ last.calls[c].fn = "from_url"
                    /\ last.calls[c].args = <<ConfiguredUrl(last.app, last.prefix)>>
             /\ last.outcome = "ok" => Len(last.calls) = 1

\* a completed call on a direct URL that carries credentials and a query
C2_Witness ==
    /\ last.outcome = "ok"
    /\ Len(last.calls) = 1
    /\ last.calls[1].fn = "from_url"
    /\ last.calls[1].args = <<"redis://u:p@h1:1,h2/grp/3?ssl=true">>

---------------------------------------------------------------------------
(* C3 *)

---------------------------------------------------------------------------
(* C4 *)

\* C4: a call on a discovery URL with a malformed port, database index or
\* socket_timeout raises ValueError, enters no provider, creates no object,
\* leaves every existing instance's client and app.extensions as they were,
\* and (in a constructor) yields no instance.
C4_AllOrNothing ==
    [][(Len(trace') = Len(trace) + 1 /\ Malformed(last'.url)) =>
            /\ last'.outcome = "ValueError"
            /\ last'.calls = <<>>
            /\ nobj' = nobj
            /\ extensions' = extensions
            /\ Len(inst') = Len(inst)
            /\ \A i \in 1..Len(inst) : inst'[i]._redis_client = inst[i]._redis_client]_vars

\* init_app has raised ValueError on an instance that exists
C4_Witness ==
    /\ last.op = "init_app"
    /\ last.outcome = "ValueError"
    /\ BadDbIn(SplitOnce(LStrip(urlparse(last.url).path, "/"), "/"))
    /\ ~BadPortIn(WrittenHosts(urlparse(last.url).netloc))

---------------------------------------------------------------------------
(* C5 *)

\* C5: when Sentinel is None, constructing FlaskRedis for an application
\* whose URL has a discovery scheme raises the ImportError of line 53.
C5_MissingSentinelIsImportError ==
    (/\ last.op = "__init__"
     /\ last.app # NoApp
     /\ modules.Sentinel = "None"
     /\ IsSentinelUrl(ConfiguredUrl(last.app, last.prefix)))
        => last.outcome = "ImportError"

---------------------------------------------------------------------------
(* C6 *)

\* C6: an init_app call whose URL parses completes, and each provider call
\* it makes receives, for every key of the caller's parameters, the caller's
\* value.
C6_CallerKwargsWin ==
    (last.op = "init_app" /\ ~Malformed(last.url)) =>
        /\ last.outcome = "ok"
        /\ \A c \in 1..Len(last.calls) :
            \A k \in DOMAIN inst[last.inst].provider_kwargs :
                /\ k \in DOMAIN last.calls[c].kwargs
                /\ last.calls[c].kwargs[k] = inst[last.inst].provider_kwargs[k]

---------------------------------------------------------------------------
(* C7 *)

\* C7: the host list given to Sentinel is the list written in the URL after
\* its credentials: one (host, port) pair per ','-separated token, in the
\* order written, the port as written or 26379.
C7_HostsAsWritten ==
    (Called /\ IsSentinelUrl(last.url) /\ Len(last.calls) >= 1) =>
        last.calls[1].args = <<ExpectedHosts(WrittenHosts(urlparse(last.url).netloc))>>

---------------------------------------------------------------------------
(* C8 *)

\* C8: on a discovery URL the path without its leading '/' is split at its
\* first '/': a completed call hands master_for the left segment as the
\* group name and the integer of the right segment as db, or the whole path
\* and db 0 when there is no '/'; a right segment that is not an integer
\* makes the call raise ValueError; a path without '/' raises nothing.
C8_GroupAndDb ==
    (Called /\ last.url # "") =>
        LET u == urlparse(last.url)
            parts == SplitOnce(LStrip(u.path, "/"), "/")
        IN  u.scheme \in SentinelSchemes =>
            /\ BadDbIn(parts) => last.outcome = "ValueError"
            /\ (/\ Len(parts) = 1
                /\ ~BadPortIn(WrittenHosts(u.netloc))
                /\ ~BadTimeoutIn(QGet(parse_qs(u.query), "socket_timeout"))
                /\ last.outcome # "ProviderError") => last.outcome = "ok"
            /\ last.outcome = "ok" =>
                /\ last.calls[2].args = <<parts[1]>>
                /\ last.calls[2].kwargs.db =
                        PyInt(IF Len(parts) = 2 THEN DigitsValue(parts[2]) ELSE 0)

\* a completed call whose path has two leading '/' and a two-digit db
C8_Witness ==
    /\ last.outcome = "ok"
    /\ Len(last.calls) = 2
    /\ urlparse(last.url).path = "//grp/12"
    /\ last.calls[2].args = <<"grp">>
    /\ last.calls[2].kwargs.db = PyInt(12)

---------------------------------------------------------------------------
(* C9 *)

\* the first value of ssl in the query is "true" in any case
SslRequested(ssl) == ssl # None /\ Lower(ssl[2]) = "true"

\* the fields of a query other than ssl=..., each preceded by '&'
RECURSIVE WithoutSsl(_)
WithoutSsl(fields) ==
    IF Len(fields) = 0 THEN ""
    ELSE (IF SplitOnce(Head(fields), "=")[1] = "ssl" THEN "" ELSE "&" \o Head(fields))
            \o WithoutSsl(Tail(fields))

\* the same URL under rediss+sentinel and without its ssl parameter
SecureTwin(u) ==
    "rediss+sentinel://" \o u.netloc \o u.path \o "?" \o WithoutSsl(Split(u.query, "&"))

\* C9: the Sentinel call of a discovery URL carries security parameters
\* exactly when the scheme is rediss+sentinel or ssl is "true" in any case;
\* otherwise it carries none of them; and under redis+sentinel with ssl=true
\* they are those of the same URL under rediss+sentinel without ssl.
C9_Security ==
    (Called /\ Len(last.calls) >= 1) =>
        LET u == urlparse(last.url)
            requested == SslRequested(QGet(parse_qs(u.query), "ssl"))
        IN  u.scheme \in SentinelSchemes =>
            /\ ("ssl" \in DOMAIN last.calls[1].kwargs)
                    <=> (u.scheme = "rediss+sentinel" \/ requested)
            /\ "ssl" \notin DOMAIN last.calls[1].kwargs
                    => DOMAIN last.calls[1].kwargs \cap SslKeys = {}
            /\ (u.scheme = "redis+sentinel" /\ requested)
                    => Restrict(last.calls[1].kwargs, SslKeys) =
                        _parse_sentinel_parameters(urlparse(SecureTwin(u)))
                            .sentinel_kwargs.ssl_params

\* redis+sentinel with ssl=TRUE: security enabled with a certificate requirement
C9_Witness ==
    /\ Called
    /\ Len(last.calls) >= 1
    /\ urlparse(last.url).scheme = "redis+sentinel"
    /\ QGet(parse_qs(urlparse(last.url).query), "ssl") = PyStr("TRUE")
    /\ last.calls[1].kwargs.ssl = PyBool(TRUE)
    /\ last.calls[1].kwargs.ssl_cert_reqs = <<"ssl", "CERT_REQUIRED">>

---------------------------------------------------------------------------
(* C10 *)

\* the kwargs of the constructor of instance i overlaid by the kwargs of the
\* init_app calls on it among the first j calls, in call order
RECURSIVE Overlay(_, _)
Overlay(i, j) ==
    IF j = 0 THEN EmptyDict
    ELSE IF trace[j].inst = i THEN Update(Overlay(i, j - 1), trace[j].kwargs)
    ELSE Overlay(i, j - 1)

\* C10: every instance's provider_kwargs are its constructor's kwargs
\* overlaid by the kwargs of every init_app call made on it so far, in call
\* order, whether the call completed or raised and whatever its application;
\* and every provider call of the latest call carries all of them.
C10_KwargsAccumulate ==
    /\ \A i \in 1..Len(inst) : inst[i].provider_kwargs = Overlay(i, Len(trace))
    /\ last.op = "init_app" =>
        \A c \in 1..Len(last.calls) :
            \A k \in DOMAIN Overlay(last.inst, Len(trace)) :
                /\ k \in DOMAIN last.calls[c].kwargs
                /\ last.calls[c].kwargs[k] = Overlay(last.inst, Len(trace))[k]

\* a call that raised, then a call for another application that completed and
\* handed the provider the kwargs of the call that raised
C10_Witness ==
    /\ Len(trace) = 3
    /\ trace[2].op = "init_app"
    /\ trace[2].outcome = "ValueError"
    /\ trace[2].kwargs = Dict1("max_connections", PyInt(2))
    /\ trace[1].kwargs = Dict1("max_connections", PyInt(1))
    /\ trace[3].op = "init_app"
    /\ trace[3].outcome = "ok"
    /\ trace[3].app # trace[2].app
    /\ trace[3].kwargs = EmptyDict
    /\ last.calls[1].kwargs.max_connections = PyInt(2)

====
